---- MODULE Spec2Model ----
(***************************************************************************)
(* Model of the structural extractor of python-object-tree                 *)
(* (src/analysis.py): the attribute-path resolver, the type inference      *)
(* engine, the attribute extractor and the structural model builder.       *)
(*                                                                         *)
(* Syntax nodes and live runtime objects share one record shape, because   *)
(* the extractor's helper passes either kind to find_type.  A Python       *)
(* exception is an outcome: every operator returns [exc, val].             *)
(***************************************************************************)
EXTENDS Naturals, Sequences, FiniteSets, TLC

VARIABLES interp, call, done, res

vars == <<interp, call, done, res>>

\* ------------------------------------------------------------------ bounds
MaxBody == 2
MaxPath == 3

\* ------------------------------------------------- nodes and runtime values
Node(k, id, ctx, sub, elts) ==
    [k |-> k, id |-> id, ctx |-> ctx, sub |-> sub, elts |-> elts]

\* runtime objects
None == Node("NoneObj", "", "", <<>>, <<>>)
Ty(name) == Node("type", name, "", <<>>, <<>>)
Fun(name) == Node("function", name, "", <<>>, <<>>)
Cls(name) == Node("class", name, "", <<>>, <<>>)
Inst(name) == Node("instance", name, "", <<>>, <<>>)
StrObj(s) == Node("str", s, "", <<>>, <<>>)
TupleObj(elts) == Node("tuple", "", "", <<>>, elts)
Mod == Node("module", "m", "", <<>>, <<>>)
SlotWrapper == Node("wrapper_descriptor", "__init__", "", <<>>, <<>>)
SignatureEmpty == Node("Signature.empty", "", "", <<>>, <<>>)
NoneType == Ty("NoneType")
TypingTuple(elts) == Node("typing.Tuple", "", "", <<>>, elts)
TypingList(elts) == Node("typing.List", "", "", <<>>, elts)

\* syntax nodes (module ast)
Num(t) == Node("Num", t, "", <<>>, <<>>)
Str == Node("Str", "", "", <<>>, <<>>)
TupleN(elts, ctx) == Node("Tuple", "", ctx, <<>>, elts)
ListN(elts, ctx) == Node("List", "", ctx, <<>>, elts)
Call(func) == Node("Call", "", "", <<func>>, <<>>)
Name(id, ctx) == Node("Name", id, ctx, <<>>, <<>>)
Attribute(value, attr, ctx) == Node("Attribute", attr, ctx, <<value>>, <<>>)
Subscript(value, ctx) == Node("Subscript", "", ctx, <<value>>, <<>>)
BinOp == Node("BinOp", "", "", <<>>, <<>>)

\* statements of a constructor body
Assign(targets, value) ==
    [k |-> "Assign", targets |-> targets, value |-> <<value>>, annotation |-> <<>>]
AnnAssign(target, annotation, value) ==
    [k |-> "AnnAssign", targets |-> <<target>>, value |-> <<value>>,
     annotation |-> <<annotation>>]
ExprStmt == [k |-> "Expr", targets |-> <<>>, value |-> <<>>, annotation |-> <<>>]

\* outcomes
Ret(v) == [exc |-> "none", val |-> v]
Raise(e) == [exc |-> e, val |-> None]

\* --------------------------------------------------- the analysed module m
\* class statements of m: the bases written in the declaration, the method
\* resolution order after the class itself, and the members that
\* inspect.getmembers enumerates (sorted by key).
ClassNames == {"Point", "Wrapper", "K", "S", "Multi", "Deep", "Bare", "Leaf"}

DeclaredBases(c) ==
    CASE c = "Wrapper" -> <<"Point">>
      [] c = "Multi" -> <<"Point", "K">>
      [] c = "Deep" -> <<"Wrapper">>
      [] c = "Leaf" -> <<"Bare">>
      [] OTHER -> <<>>

\* type.__bases__: a class statement without bases gets (object,)
Bases(c) == IF DeclaredBases(c) = <<>> THEN <<"object">> ELSE DeclaredBases(c)

\* type.mro()[1:]
MroTail(c) ==
    CASE c = "Wrapper" -> <<"Point", "object">>
      [] c = "Multi" -> <<"Point", "K", "object">>
      [] c = "Deep" -> <<"Wrapper", "Point", "object">>
      [] c = "Leaf" -> <<"Bare", "object">>
      [] OTHER -> <<"object">>

Member(key, obj) == [key |-> key, obj |-> obj]

PointMembers ==
    << Member("__doc__", None), Member("__init__", Fun("__init__")),
       Member("_priv", Fun("_priv")), Member("distance", Fun("distance")),
       Member("norm", Fun("distance")), Member("scale", Inst("one")) >>

KMembers ==
    << Member("__annotations__", Inst("dict")), Member("__doc__", None),
       Member("__init__", SlotWrapper), Member("make", Fun("make")),
       Member("self", Cls("S")), Member("x", Inst("two")) >>

Members(c) ==
    CASE c = "Point" -> PointMembers
      [] c = "Wrapper" -> PointMembers
      [] c = "Deep" -> PointMembers
      [] c = "K" -> KMembers
      [] c \in {"Bare", "Leaf"} ->
           << Member("__doc__", None), Member("__init__", Fun("__init__")) >>
      [] c = "S" -> << Member("__doc__", None), Member("__init__", SlotWrapper),
                       Member("x", Inst("one")) >>
      [] c = "Multi" ->
           << Member("__doc__", None), Member("__init__", Fun("__init__")),
              Member("_priv", Fun("_priv")), Member("distance", Fun("distance")),
              Member("make", Fun("make")), Member("norm", Fun("distance")),
              Member("scale", Inst("one")), Member("self", Cls("S")),
              Member("x", Inst("two")) >>

\* module-level names of m
ModuleDict ==
    << Member("Bare", Cls("Bare")), Member("K", Cls("K")),
       Member("Leaf", Cls("Leaf")), Member("Point", Cls("Point")),
       Member("S", Cls("S")), Member("Wrapper", Cls("Wrapper")),
       Member("f", Fun("f")), Member("g", Fun("g")), Member("h", Fun("h")),
       Member("t3", Fun("t3")) >>

Lookup(members, key) ==
    IF \E i \in 1..Len(members) : members[i].key = key
    THEN members[CHOOSE i \in 1..Len(members) : members[i].key = key].obj
    ELSE None

\* getattr(obj, name, None)
GetAttr(obj, name) ==
    CASE obj = Mod -> Lookup(ModuleDict, name)
      [] obj.k = "class" /\ obj.id \in ClassNames -> Lookup(Members(obj.id), name)
      [] OTHER -> None

\* the "return" entry of a function's __annotations__ (None when absent)
ReturnAnnotation(f) ==
    CASE f = "f" -> TypingTuple(<<Ty("int"), Ty("str")>>)
      [] f = "t3" -> TypingTuple(<<Ty("int"), Ty("str"), Ty("float")>>)
      [] f = "g" -> Ty("int")
      [] f = "make" -> Ty("int")
      [] f = "distance" -> Ty("float")
      [] OTHER -> None

\* obj.__annotations__.get("return").  A function always has the dict.  A
\* class has one when its body annotates a name (K does); for a class that
\* annotates nothing the interpreter either has no such attribute or makes
\* an empty dict, according to its version (interp).
AnnotationsGetReturn(obj) ==
    CASE obj.k = "function" -> Ret(ReturnAnnotation(obj.id))
      [] obj.k = "class" /\ obj.id = "K" -> Ret(None)
      [] obj.k = "class" /\ interp = "empty_dict" -> Ret(None)
      [] OTHER -> Raise("AttributeError")

\* fn.__annotations__.get(name) for the constructor fn: fn is the function
\* from annotated parameter names to their annotations
FnAnnotationsGet(fn, name) == IF name \in DOMAIN fn THEN fn[name] ELSE None

\* ------------------------------------------------- propagating exceptions
\* An operator that takes the outcome of an earlier step hands on the
\* exception that step raised.
\* the records of h followed by the records of t, unless either raises
Chain(h, t) ==
    IF h.exc # "none" THEN h
    ELSE IF t.exc # "none" THEN t
    ELSE Ret(h.val \o t.val)

\* ------------------------------------------------- PythonAttr (the resolver)
NoPath == [none |-> TRUE, segs |-> <<>>]
Path(segs) == [none |-> FALSE, segs |-> segs]

\* p + (attr,), p being what attr_access_path gave for obj.value
PlusAttr(p, attr) ==
    IF p.exc # "none" THEN p
    ELSE IF p.val.none THEN Raise("TypeError")          \* None + (attr,)
    ELSE Ret(Path(Append(p.val.segs, attr)))

RECURSIVE attr_access_path(_)
attr_access_path(obj) ==
    CASE obj.k = "Name" -> Ret(Path(<<obj.id>>))
      [] obj.k = "Attribute" -> PlusAttr(attr_access_path(obj.sub[1]), obj.id)
      [] OTHER -> Ret(NoPath)

RECURSIVE GetAttrChain(_, _)
GetAttrChain(obj, rest) ==
    IF rest = <<>> THEN obj ELSE GetAttrChain(GetAttr(obj, Head(rest)), Tail(rest))

\* find_attr with the namespace and the class under analysis confused: every
\* first segment is fetched from base
find_attr_base_only(path, module, base) ==
    IF path.none THEN Raise("TypeError")
    ELSE IF path.segs = <<>> THEN Raise("ValueError")
    ELSE IF Head(path.segs) = "self" THEN Ret(GetAttrChain(base, Tail(path.segs)))
    ELSE Ret(GetAttrChain(GetAttr(base, Head(path.segs)), Tail(path.segs)))

RECURSIVE find_attr(_, _, _)
find_attr(path, module, base) ==
    IF path.none THEN Raise("TypeError")                \* first, *rest = None
    ELSE IF path.segs = <<>> THEN Raise("ValueError")   \* first, *rest = ()
    ELSE IF Head(path.segs) = "self"
         THEN find_attr(Path(Tail(path.segs)), base, base)
    ELSE Ret(GetAttrChain(GetAttr(module, Head(path.segs)), Tail(path.segs)))

\* inspect.getmodule(klass): every class of the model is declared in m
GetModule(klass) == Mod

\* ------------------------------------------- PythonAttr (type inference)
\* typing turns a None parameter into NoneType
TypingParam(v) == IF v = None THEN NoneType ELSE v

\* one element of tuple(cls.find_type(i, klass, fn) for i in typ.elts)
TypeParam(t) == IF t.exc # "none" THEN t ELSE Ret(<<TypingParam(t.val)>>)

\* Tuple[params]
TupleSubscript(params) ==
    IF params.exc # "none" THEN params ELSE Ret(TypingTuple(params.val))

\* List[params]: typing.List takes exactly one parameter
ListSubscript(params) ==
    IF params.exc # "none" THEN params
    ELSE IF Len(params.val) # 1 THEN Raise("TypeError")
    ELSE Ret(TypingList(params.val))

\* cls.find_attr(cls.attr_access_path(typ.func), module, klass)
FindAttrOfPath(p, module, base) ==
    IF p.exc # "none" THEN p ELSE find_attr(p.val, module, base)

\* obj.__annotations__.get("return"), obj being what find_attr gave
ReturnOf(obj) == IF obj.exc # "none" THEN obj ELSE AnnotationsGetReturn(obj.val)

\* the lookup of a Name that the constructor's annotations do not decide
NameLookup(obj, id, klass) ==
    IF obj # None THEN Ret(obj)
    ELSE find_attr(Path(<<id>>), GetModule(klass), klass)

RECURSIVE find_type(_, _, _)
RECURSIVE FindTypes(_, _, _)
\* tuple(cls.find_type(i, klass, fn) for i in elts)
FindTypes(elts, klass, fn) ==
    IF elts = <<>> THEN Ret(<<>>)
    ELSE Chain(TypeParam(find_type(Head(elts), klass, fn)),
               FindTypes(Tail(elts), klass, fn))

find_type(typ, klass, fn) ==
    CASE typ.k = "Num" -> Ret(Ty(typ.id))
      [] typ.k = "Str" -> Ret(Ty("str"))
      [] typ.k = "Tuple" -> TupleSubscript(FindTypes(typ.elts, klass, fn))
      [] typ.k = "List" -> ListSubscript(FindTypes(typ.elts, klass, fn))
      [] typ.k = "Call" ->
           ReturnOf(FindAttrOfPath(attr_access_path(typ.sub[1]),
                                   GetModule(klass), klass))
      [] typ.k = "Name" -> NameLookup(FnAnnotationsGet(fn, typ.id), typ.id, klass)
      [] OTHER -> Ret(None)

\* ------------------------------------------- PythonAttr (the extractor)
AttrRec(name, type) == [name |-> name, type |-> type]

\* isinstance(obj, ast.Attribute) and isinstance(obj.ctx, ast.Store)
\*     and (obj.value.id == "self")
check_self_attr(obj) ==
    IF obj.k # "Attribute" THEN Ret(FALSE)
    ELSE IF obj.ctx # "Store" THEN Ret(FALSE)
    ELSE IF obj.sub[1].k # "Name" THEN Raise("AttributeError")  \* no .id
    ELSE Ret(obj.sub[1].id = "self")

\* isinstance(values, (Tuple, List)): a tuple or a list object
IsTupleOrList(v) == v.k \in {"tuple", "list"}

NoneList(n) == [i \in 1..n |-> None]

\* if not isinstance(values, (Tuple, List)): values = [None] * len(var.elts)
ValuesOrNones(values, n) ==
    IF values.exc # "none" THEN values
    ELSE IF IsTupleOrList(values.val) THEN Ret(values.val.elts)
    ELSE Ret(NoneList(n))

\* yield cls(var.attr, cls.find_type(value, klass, fn)) if check_self_attr(var)
SelfAttrRecord(c, attr, t) ==
    IF c.exc # "none" THEN c
    ELSE IF ~c.val THEN Ret(<<>>)
    ELSE IF t.exc # "none" THEN t
    ELSE Ret(<<AttrRec(attr, t.val)>>)

RECURSIVE helper(_, _, _, _)
RECURSIVE HelperMap(_, _, _, _)
\* chain.from_iterable(map(helper, var.elts, values)): stops at the shorter
HelperMap(elts, values, klass, fn) ==
    IF elts = <<>> \/ values = <<>> THEN Ret(<<>>)
    ELSE Chain(helper(Head(elts), Head(values), klass, fn),
               HelperMap(Tail(elts), Tail(values), klass, fn))

\* map(helper, var.elts, values), values being what the lines above it gave
HelperMapOver(values, elts, klass, fn) ==
    IF values.exc # "none" THEN values ELSE HelperMap(elts, values.val, klass, fn)

helper(var, value, klass, fn) ==
    IF var.k \in {"Tuple", "List"}
    THEN HelperMapOver(
             IF value.k \in {"Tuple", "List"} THEN Ret(value.elts)
             ELSE IF value.k # "Call" THEN Raise("AttributeError")   \* no .func
             ELSE ValuesOrNones(find_type(value.sub[1], klass, fn), Len(var.elts)),
             var.elts, klass, fn)
    ELSE SelfAttrRecord(check_self_attr(var), var.id, find_type(value, klass, fn))

RECURSIVE HelperTargets(_, _, _, _)
\* chain.from_iterable(helper(i, syntax.value) for i in syntax.targets)
HelperTargets(targets, value, klass, fn) ==
    IF targets = <<>> THEN Ret(<<>>)
    ELSE Chain(helper(Head(targets), value, klass, fn),
               HelperTargets(Tail(targets), value, klass, fn))

\* syntax.annotation.id
AnnotationId(annotation) ==
    IF annotation.k # "Name" THEN Raise("AttributeError")   \* no .id
    ELSE Ret(StrObj(annotation.id))

from_ast(syntax, klass, fn) ==
    CASE syntax.k = "Assign" ->
           HelperTargets(syntax.targets, syntax.value[1], klass, fn)
      [] syntax.k = "AnnAssign" ->
           SelfAttrRecord(check_self_attr(syntax.targets[1]), syntax.targets[1].id,
                          AnnotationId(syntax.annotation[1]))
      [] OTHER -> Ret(<<>>)

valid_ast(obj) == obj.k \in {"Assign", "AnnAssign"}

\* ------------------------------------------------------------ PythonMethod
\* the names of inspect.signature(obj).parameters
Parameters(f, fn) ==
    CASE f = "__init__" ->
           <<"self">> \o SelectSeq(<<"pair", "y_param">>, LAMBDA n : n \in DOMAIN fn)
      [] f \in {"distance", "make", "_priv"} -> <<"self">>
      [] OTHER -> <<>>

MethodRec(name, args, returns) == [name |-> name, args |-> args, returns |-> returns]

\* signature.return_annotation: Signature.empty when nothing is declared
SignatureReturn(ann) == IF ann = None THEN SignatureEmpty ELSE ann

PythonMethod_from_object(obj, fn) ==
    MethodRec(obj.id, Parameters(obj.id, fn), SignatureReturn(ReturnAnnotation(obj.id)))

\* ------------------------------------------------------------- PythonClass
RECURSIVE BuildBodyFrom(_, _, _)
\* chain.from_iterable(from_ast(i, ...) for i in fn_body if valid_ast(i))
BuildBodyFrom(fn_body, klass, fn) ==
    IF fn_body = <<>> THEN Ret(<<>>)
    ELSE IF ~valid_ast(Head(fn_body)) THEN BuildBodyFrom(Tail(fn_body), klass, fn)
    ELSE Chain(from_ast(Head(fn_body), klass, fn),
               BuildBodyFrom(Tail(fn_body), klass, fn))

\* build_body(self, obj): obj is klass.__init__, fn_body its parsed body and
\* fn its annotated parameters; inspect.getsourcelines raises TypeError for
\* a constructor that is not written in Python
build_body(klass, fn_body, fn) ==
    IF GetAttr(klass, "__init__").k # "function" THEN Ret(<<>>)
    ELSE BuildBodyFrom(fn_body, klass, fn)

\* str.startswith("_") over the identifiers of the model
StartsWithUnderscore(s) == s \in {"_priv", "__init__", "__doc__", "__annotations__"}

\* the predicate without its constructor exception
predicate_no_constructor(obj) ==
    IF obj.k # "function" THEN FALSE ELSE ~StartsWithUnderscore(obj.id)

\* the predicate handed to inspect.getmembers
predicate(obj) ==
    IF obj.k # "function" THEN FALSE
    ELSE IF obj.id = "__init__" THEN TRUE
    ELSE ~StartsWithUnderscore(obj.id)

RECURSIVE MethodsOf(_, _)
MethodsOf(members, fn) ==
    IF members = <<>> THEN <<>>
    ELSE IF predicate(Head(members).obj)
         THEN <<PythonMethod_from_object(Head(members).obj, fn)>>
              \o MethodsOf(Tail(members), fn)
         ELSE MethodsOf(Tail(members), fn)

ClassRec(name, parents, attrs, methods) ==
    [name |-> name, parents |-> parents, attrs |-> attrs, methods |-> methods]

\* the arguments (parents, methods) are evaluated before the constructor
\* builds attrs; nothing is returned when build_body raises
PythonClass_init(name, parents, attrs, methods) ==
    IF attrs.exc # "none" THEN attrs
    ELSE Ret(ClassRec(name, parents, attrs.val, methods))

from_object(obj, fn_body, fn) ==
    PythonClass_init(obj.id, Bases(obj.id), build_body(obj, fn_body, fn),
                     MethodsOf(Members(obj.id), fn))

build_for_object(obj, fn_body, fn) ==
    CASE obj.k = "class" -> from_object(obj, fn_body, fn)
      [] obj.k = "function" -> Ret(PythonMethod_from_object(obj, fn))
      [] OTHER -> Ret(None)

\* ------------------------------------------------- graphgen.py (earlier variant)
\* the predicate of graphgen.py: no constructor exception
predicate_graphgen(obj) ==
    IF obj.k # "function" THEN FALSE ELSE ~StartsWithUnderscore(obj.id)

\* build_body of graphgen.py: getsourcelines is not guarded, and from_ast is
\* called with one argument too few, a TypeError at the first statement kept
build_body_graphgen(init, fn_body) ==
    IF init.k # "function" THEN Raise("TypeError")
    ELSE IF \E i \in 1..Len(fn_body) : valid_ast(fn_body[i]) THEN Raise("TypeError")
    ELSE Ret(<<>>)

\* [PythonMethod.from_object(x) for x, _ in inspect.getmembers(obj, predicate)]:
\* x is the member's key, a str, which inspect.signature rejects
MethodsOf_graphgen(members) ==
    IF \E i \in 1..Len(members) : predicate_graphgen(members[i].obj)
    THEN Raise("TypeError")
    ELSE Ret(<<>>)

\* cls(name, parents, attrs, methods): the arguments are evaluated in order
PythonClass_graphgen(name, parents, attrs, methods) ==
    IF attrs.exc # "none" THEN attrs
    ELSE IF methods.exc # "none" THEN methods
    ELSE Ret(ClassRec(name, parents, attrs.val, methods.val))

from_object_graphgen(obj, fn_body) ==
    PythonClass_graphgen(obj.id, MroTail(obj.id),
                         build_body_graphgen(GetAttr(obj, "__init__"), fn_body),
                         MethodsOf_graphgen(Members(obj.id)))

build_for_object_graphgen(obj, fn_body, fn) ==
    CASE obj.k = "class" -> from_object_graphgen(obj, fn_body)
      [] obj.k = "function" -> Ret(PythonMethod_from_object(obj, fn))
      [] OTHER -> Ret(None)

\* ------------------------------------------------------------------ inputs
SelfLoad == Name("self", "Load")
SelfAttr(a) == Attribute(Name("self", "Load"), a, "Store")
Int == Num("int")
Float == Num("float")

Tup2 == TupleN(<<SelfAttr("a"), SelfAttr("b")>>, "Store")
Tup3 == TupleN(<<SelfAttr("a"), SelfAttr("b"), SelfAttr("c")>>, "Store")

\* assignment targets, all in store context
Targets ==
    { SelfAttr("a"), SelfAttr("b"),
      Name("loc", "Store"),                                         \* loc
      Attribute(Name("other", "Load"), "x", "Store"),               \* other.x
      Attribute(Attribute(SelfLoad, "a", "Load"), "b", "Store"),    \* self.a.b
      Attribute(Call(Name("f", "Load")), "x", "Store"),             \* f().x
      Attribute(Subscript(Name("loc", "Load"), "Load"), "x", "Store"), \* loc[0].x
      Subscript(Name("loc", "Load"), "Store"),                      \* loc[0]
      Tup2, Tup3,
      ListN(<<SelfAttr("a"), SelfAttr("b")>>, "Store"),
      TupleN(<<Name("loc", "Store"), SelfAttr("b")>>, "Store"),     \* loc, self.b
      TupleN(<<Name("p", "Store"), Name("q", "Store")>>, "Store"),  \* p, q
      TupleN(<<Tup2, SelfAttr("c")>>, "Store") }                    \* (a, b), c

CallName(f) == Call(Name(f, "Load"))

\* right-hand sides
Values ==
    { Int, Float, Str, BinOp,
      TupleN(<<Int, Str>>, "Load"), TupleN(<<Int, Str, Float>>, "Load"),
      TupleN(<<Int>>, "Load"),
      TupleN(<<TupleN(<<Int, Str>>, "Load"), Float>>, "Load"),
      ListN(<<>>, "Load"), ListN(<<Int>>, "Load"), ListN(<<Int, Str>>, "Load"),
      CallName("f"), CallName("g"), CallName("h"), CallName("t3"),
      CallName("Point"), CallName("K"), CallName("nope"), CallName("self"),
      CallName("pair"),
      Call(Attribute(SelfLoad, "make", "Load")),                    \* self.make()
      Call(Attribute(SelfLoad, "nope", "Load")),                    \* self.nope()
      Call(Attribute(Name("nope", "Load"), "x", "Load")),           \* nope.x()
      Call(CallName("f")),                                          \* f()()
      Call(Attribute(CallName("f"), "x", "Load")),                  \* f().x()
      Call(Subscript(Name("f", "Load"), "Load")),                   \* f[0]()
      Name("y_param", "Load"), Name("loc", "Load"), Name("g", "Load"),
      SelfLoad }

Annotations ==
    { Name("float", "Load"),                                        \* float
      Subscript(Name("List", "Load"), "Load"),                      \* List[int]
      Attribute(Name("typing", "Load"), "Any", "Load") }            \* typing.Any

Stmts ==
    { Assign(<<t>>, v) : t \in Targets, v \in Values }
    \cup { Assign(<<SelfAttr("a"), SelfAttr("b")>>, v) : v \in {Int, CallName("g")} }
    \cup { Assign(<<Name("loc", "Store"), SelfAttr("b")>>, Str) }
    \cup { AnnAssign(t, a, v) :
             t \in { SelfAttr("a"), Name("loc", "Store"),
                     Attribute(Attribute(SelfLoad, "a", "Load"), "b", "Store") },
             a \in Annotations,
             v \in { Name("y_param", "Load"), ListN(<<>>, "Load") } }
    \cup { ExprStmt }

\* the statements constructor bodies are made of
BodyStmts ==
    { Assign(<<SelfAttr("a")>>, Int),                               \* self.a = 0
      AnnAssign(SelfAttr("b"), Name("float", "Load"), Name("y_param", "Load")),
      Assign(<<Name("loc", "Store")>>, Int),                        \* loc = 0
      Assign(<<Tup2>>, TupleN(<<Int, Str>>, "Load")),               \* self.a, self.b = 0, "s"
      Assign(<<SelfAttr("c")>>, CallName("g")),                     \* self.c = g()
      Assign(<<SelfAttr("a")>>, CallName("Point")),                 \* self.a = Point()
      Assign(<<Attribute(Attribute(SelfLoad, "a", "Load"), "b", "Store")>>, Int),
      ExprStmt }

RECURSIVE SeqsUpTo(_, _)
SeqsUpTo(S, n) ==
    IF n = 0 THEN {<<>>}
    ELSE LET shorter == SeqsUpTo(S, n - 1) IN
         shorter \cup { Append(q, x) : q \in shorter, x \in S }

Bodies == SeqsUpTo(BodyStmts, MaxBody)

\* the annotated parameters of the constructor
Fns ==
    { <<>>,
      [y_param |-> Ty("float")],
      [y_param |-> Ty("float"), pair |-> TupleObj(<<Ty("int"), Ty("str")>>)] }

Classes == { Cls(c) : c \in ClassNames }

\* what build_for_object may be handed
Objects == Classes \cup { Fun("f"), Fun("g"), Fun("h"), Inst("one"), None }

Segments == {"self", "x", "make", "S", "nope"}
Paths == SeqsUpTo(Segments, MaxPath) \ {<<>>}

\* ------------------------------------------------------------ state machine
\* One run is one request to the library: call is the request, drawn from the
\* inputs above, and res is what the requested function returns or raises.
FindAttrCalls ==
    { [op |-> "find_attr", path |-> path, base |-> base] :
        path \in Paths, base \in Classes }

FindTypeCalls ==
    { [op |-> "find_type", typ |-> typ, klass |-> klass, fn |-> fn] :
        typ \in Values, klass \in Classes, fn \in Fns }

FromAstCalls ==
    { [op |-> "from_ast", syntax |-> syntax, klass |-> klass, fn |-> fn] :
        syntax \in Stmts, klass \in Classes, fn \in Fns }

\* fn_body and fn describe obj.__init__ when obj is a class whose constructor
\* is written in Python; any other object has neither
BuildForObjectCalls ==
    { c \in { [op |-> "build_for_object", obj |-> obj, fn_body |-> fn_body,
               fn |-> fn] : obj \in Objects, fn_body \in Bodies, fn \in Fns } :
        \/ c.obj.k = "class" /\ GetAttr(c.obj, "__init__").k = "function"
        \/ c.fn_body = <<>> /\ c.fn = <<>> }

GraphgenCalls ==
    { [op |-> "graphgen.build_for_object", obj |-> c.obj, fn_body |-> c.fn_body,
       fn |-> c.fn] : c \in BuildForObjectCalls }

Init ==
    /\ interp \in {"no_attribute", "empty_dict"}
    /\ call \in FindAttrCalls \cup FindTypeCalls \cup FromAstCalls
                \cup BuildForObjectCalls \cup GraphgenCalls
    /\ done = FALSE
    /\ res = Ret(None)

FindAttr ==
    /\ ~done /\ call.op = "find_attr"
    /\ res' = find_attr(Path(call.path), Mod, call.base)
    /\ done' = TRUE
    /\ UNCHANGED <<interp, call>>

FindType ==
    /\ ~done /\ call.op = "find_type"
    /\ res' = find_type(call.typ, call.klass, call.fn)
    /\ done' = TRUE
    /\ UNCHANGED <<interp, call>>

FromAst ==
    /\ ~done /\ call.op = "from_ast"
    /\ res' = from_ast(call.syntax, call.klass, call.fn)
    /\ done' = TRUE
    /\ UNCHANGED <<interp, call>>

BuildForObject ==
    /\ ~done /\ call.op = "build_for_object"
    /\ res' = build_for_object(call.obj, call.fn_body, call.fn)
    /\ done' = TRUE
    /\ UNCHANGED <<interp, call>>

BuildForObjectGraphgen ==
    /\ ~done /\ call.op = "graphgen.build_for_object"
    /\ res' = build_for_object_graphgen(call.obj, call.fn_body, call.fn)
    /\ done' = TRUE
    /\ UNCHANGED <<interp, call>>

Next == FindAttr \/ FindType \/ FromAst \/ BuildForObject \/ BuildForObjectGraphgen

Spec == Init /\ [][Next]_vars

\* ================================================================== claims
Unknown == None
Returned(op) == done /\ call.op = op
ModuleFunctions == { f \in {"f", "g", "h", "t3", "nope"} : GetAttr(Mod, f).k = "function" }
ModuleClasses == { c \in ClassNames : GetAttr(Mod, c).k = "class" }
IsSelfStore(t) == \E a \in {"a", "b", "c"} : t = SelfAttr(a)
AllSelfStores(ts) == \A i \in 1..Len(ts) : IsSelfStore(ts[i])
\* a destructuring target whose slots are all self-attribute stores
SlotTargets == { t \in Targets : t.k \in {"Tuple", "List"} /\ AllSelfStores(t.elts) }
UnknownRecords(slots) == [i \in 1..Len(slots) |-> AttrRec(slots[i].id, Unknown)]
Names(recs) == [i \in 1..Len(recs) |-> recs[i].name]

\* C1: an assignment self.a, self.b = f() whose callee f is a function of the
\* namespace declaring the return type tuple-of(T1, T2) yields exactly the two
\* records (a, T1), (b, T2), in target order.
C1_DestructuringFromCall ==
    \A f \in ModuleFunctions, t \in SlotTargets :
        ( /\ Returned("from_ast")
          /\ call.syntax = Assign(<<t>>, CallName(f))
          /\ ReturnAnnotation(f).k = "typing.Tuple"
          /\ Len(ReturnAnnotation(f).elts) = 2
          /\ Len(t.elts) = 2 )
        => /\ res.exc = "none"
           /\ res.val = << AttrRec(t.elts[1].id, ReturnAnnotation(f).elts[1]),
                           AttrRec(t.elts[2].id, ReturnAnnotation(f).elts[2]) >>

\* C2: find_type and find_attr return a type descriptor or None for every
\* expression and every access path; no exception escapes them.
C2_NoExceptionEscapes ==
    (Returned("find_type") \/ Returned("find_attr")) => res.exc = "none"

\* the annotation as it is written in the source
AnnotationText(a) ==
    CASE a = Name("float", "Load") -> StrObj("float")
      [] a = Subscript(Name("List", "Load"), "Load") -> StrObj("List[int]")
      [] a = Attribute(Name("typing", "Load"), "Any", "Load") -> StrObj("typing.Any")

\* C3: an annotated assignment to a self-attribute store yields exactly one
\* record, whose type is the written annotation, whatever the annotation's
\* shape and whatever the right-hand side.
C3_AnnotationVerbatim ==
    ( /\ Returned("from_ast")
      /\ call.syntax.k = "AnnAssign"
      /\ IsSelfStore(call.syntax.targets[1]) )
    => /\ res.exc = "none"
       /\ res.val = << AttrRec(call.syntax.targets[1].id,
                               AnnotationText(call.syntax.annotation[1])) >>

\* the number of elements the right-hand side supplies: those of a literal,
\* or those of the declared return type of the called namespace function
\* (0 elements stands for a return type that cannot be resolved)
Supplied(v) ==
    CASE v.k \in {"Tuple", "List"} -> Len(v.elts)
      [] v.k = "Call" /\ v.sub[1].k = "Name" /\ v.sub[1].id \in ModuleFunctions
         /\ ReturnAnnotation(v.sub[1].id).k = "typing.Tuple"
           -> Len(ReturnAnnotation(v.sub[1].id).elts)
      [] OTHER -> 0

\* literals, and calls of a plain name: a namespace function or a name the
\* namespace does not bind
MismatchValues ==
    { v \in Values : v.k \in {"Tuple", "List"} }
    \cup { CallName(f) : f \in {"f", "t3", "h", "nope"} }

\* C4: a destructuring assignment to n self-attribute slots whose right-hand
\* side is a literal or a call supplying a different number of elements, or a
\* call whose return type cannot be resolved, yields exactly n records, all
\* of unknown type, and raises nothing.
C4_MismatchAllUnknown ==
    \A t \in SlotTargets, v \in MismatchValues :
        ( /\ Returned("from_ast")
          /\ call.syntax = Assign(<<t>>, v)
          /\ Supplied(v) # Len(t.elts) )
        => /\ res.exc = "none"
           /\ res.val = UnknownRecords(t.elts)

\* C5: a plain assignment self.x = f(...) whose callee f is a function
\* declared in the module of the analysed class yields for x the record
\* whose type is f's declared return annotation, and unknown when f declares
\* none.
C5_CallReturnLookup ==
    \A f \in ModuleFunctions :
        ( /\ Returned("from_ast")
          /\ call.syntax.k = "Assign"
          /\ AllSelfStores(call.syntax.targets)
          /\ call.syntax.value[1] = CallName(f) )
        => /\ res.exc = "none"
           /\ res.val = [ i \in 1..Len(call.syntax.targets) |->
                            AttrRec(call.syntax.targets[i].id,
                                    IF f \in {"f", "g", "t3"}
                                    THEN ReturnAnnotation(f) ELSE Unknown) ]

\* self.a = g() with g declared to return int
C5_Witness ==
    /\ Returned("from_ast")
    /\ call.syntax = Assign(<<SelfAttr("a")>>, CallName("g"))
    /\ res = Ret(<<AttrRec("a", Ty("int"))>>)

\* C6: a self-attribute assigned the result of calling a class defined in the
\* analysed module (self.origin = Point()) gets that class as its type.
C6_CallOfClass ==
    \A c \in ModuleClasses, a \in {"a", "b"} :
        ( /\ Returned("from_ast")
          /\ call.syntax = Assign(<<SelfAttr(a)>>, CallName(c)) )
        => /\ res.exc = "none"
           /\ res.val = <<AttrRec(a, Cls(c))>>

\* C7: the parents of a class node are exactly the bases written in the
\* class's declaration, in order; a class declared without bases has no
\* parents.
C7_ParentsAreDeclaredBases ==
    ( /\ Returned("build_for_object") \/ Returned("graphgen.build_for_object")
      /\ call.obj.k = "class"
      /\ res.exc = "none" )
    => res.val.parents = DeclaredBases(call.obj.id)

\* the own names (__name__) of the members in ms, in enumeration order
OwnNames(ms) == [i \in 1..Len(ms) |-> ms[i].obj.id]

\* the members of class c that are plain functions with a name not starting
\* with "_"
PublicFunctions(c) ==
    SelectSeq(Members(c),
              LAMBDA m : m.obj.k = "function" /\ ~StartsWithUnderscore(m.obj.id))

\* those, and the constructor when it is a plain function
PublicFunctionsAndConstructor(c) ==
    SelectSeq(Members(c),
              LAMBDA m : /\ m.obj.k = "function"
                         /\ (m.obj.id = "__init__" \/ ~StartsWithUnderscore(m.obj.id)))

IsClassNode == Returned("build_for_object") /\ call.obj.k = "class" /\ res.exc = "none"

NonSelfTargets ==
    { t \in Targets : t.k \notin {"Tuple", "List"} /\ ~IsSelfStore(t) }

\* C9: a plain or annotated assignment whose target is not a direct
\* self-attribute store yields no record and raises nothing; the records of
\* the self-attribute targets beside it are still emitted in textual order.
C9_NonSelfTargetSkipped ==
    /\ ( /\ Returned("from_ast")
         /\ call.syntax.k \in {"Assign", "AnnAssign"}
         /\ Len(call.syntax.targets) = 1
         /\ call.syntax.targets[1] \in NonSelfTargets )
       => res = Ret(<<>>)
    /\ ( /\ Returned("from_ast")
         /\ call.syntax = Assign(<<Name("loc", "Store"), SelfAttr("b")>>, Str) )
       => res = Ret(<<AttrRec("b", Ty("str"))>>)

\* C10: only the first segment of a path gets the self short-circuit: for
\* self.s1...sn (n >= 1) the segments s1..sn are fetched as attributes
\* starting from the class under analysis, and otherwise the first segment is
\* fetched from the namespace and the rest from the successive results.
C10_SelfOnlyFirstSegment ==
    ( /\ Returned("find_attr")
      /\ ~(Head(call.path) = "self" /\ Len(call.path) = 1) )
    => /\ res.exc = "none"
       /\ res.val = IF Head(call.path) = "self"
                    THEN GetAttrChain(call.base, Tail(call.path))
                    ELSE GetAttrChain(GetAttr(Mod, Head(call.path)), Tail(call.path))

====
